---- MODULE Spec2Model ----
(***************************************************************************)
(* Offline storage and synchronisation of the mobile client.              *)
(*                                                                         *)
(* offline-storage.js (src/README.md:230-440) keeps the list of offline    *)
(* mood entries under the AsyncStorage key OFFLINE_ENTRIES_KEY and the     *)
(* time of the last sync under LAST_SYNC_KEY.  App.js                      *)
(* (src/unnamed/part_005:94-387) calls it from the mood form, the Sync     *)
(* button, the "connection restored" prompt and the background timer.      *)
(* The streak that recordMood keeps is counted by App.js on the offline    *)
(* path and by the /record-mood handler of mobile/server/index.js on the   *)
(* online path.                                                            *)
(*                                                                         *)
(* Every function of the module is async: between two awaits the           *)
(* JavaScript thread runs other callbacks, so each await of a storage or   *)
(* network operation ends one atomic step of the model.                    *)
(***************************************************************************)
EXTENDS Integers, Sequences, FiniteSets, TLC

(***************************************************************************)
(* Bounds of the model.                                                    *)
(***************************************************************************)
\* number of operations in a run: saveOfflineEntry calls, sync triggers,
\* connectivity events, steps of the clock and loadOfflineData runs, in any mix
MaxOps == 3
\* number of retention-window-long steps of the clock
MaxWeeks == 1
\* number of acknowledged deliveries counted per entry
MaxAcks == 2
\* number of "connection restored" prompts open at once
MaxAlerts == 1

\* 7 * 24 * 60 * 60 * 1000 ms, the retention window of synced entries
SevenDays == 604800000

\* AsyncStorage.getItem of an absent key, useState(null)
NotSet == -1

Saves == 1..MaxOps
Passes == 1..MaxOps

VARIABLES
    offlineEntries,          \* AsyncStorage[OFFLINE_ENTRIES_KEY], parsed: a sequence of entries
    lastSyncTimestamp,       \* AsyncStorage[LAST_SYNC_KEY], in ms; NotSet while the key is absent
    now,            \* Date.now(), in ms since the start of the run
    saver,          \* the saveOfflineEntry calls, by call number
    pass,           \* the syncOfflineEntries calls, by call number
    admitted,       \* number of recordMood calls made so far
    started,        \* number of sync passes triggered so far
    acked,          \* history: per entry (by admission number), the deliveries taken as
                    \* acknowledged, counted up to MaxAcks
    netConnected,   \* NetInfo: state.isConnected of the device
    netEvents,      \* number of NetInfo events delivered to the listener after the first
    isConnected,    \* App state isConnected
    pendingEntries, \* App state pendingEntries
    isSyncing,      \* App state isSyncing
    alerts,         \* open 'Internet Connection Restored' prompts
    api,            \* outside the App: a caller of markEntriesAsSynced and its calls so
                    \* far; an endpoint and the answers it is set to give
    lastSyncTime,   \* App state lastSyncTime, the 'Last sync' time on the screen
    loading,        \* the loadOfflineData calls: how many await the count, how many
                    \* the stored time, and how many have read their count
    syncStatus,     \* App state syncStatus, by the kind of its text
    component,      \* the App component: whether it is mounted, and how many intervals
                    \* of scheduleBackgroundSync are set and not cleared
    streak          \* App state streak

vars == <<offlineEntries, lastSyncTimestamp, now, saver, pass, admitted, started, acked,
          netConnected, netEvents, isConnected, pendingEntries, isSyncing, alerts, api,
          lastSyncTime, loading, syncStatus, component, streak>>

(***************************************************************************)
(* Helpers on sequences.                                                   *)
(***************************************************************************)
Range(s) == {s[i] : i \in 1..Len(s)}

Ids(entries) == {entries[i].offlineId : i \in 1..Len(entries)}

Seqs(entries) == {entries[i].seq : i \in 1..Len(entries)}

(***************************************************************************)
(* offline-storage.js, the pure parts.                                     *)
(***************************************************************************)
\* a saveOfflineEntry that puts the new entry first (unshift for push)
PushEntryFront(entries, ts, seq, t) ==
    <<[offlineId |-> t, pendingSync |-> TRUE, timestamp |-> ts, seq |-> seq]>> \o entries

\* existingEntries.push({...entry, offlineId: Date.now().toString(), pendingSync: true})
\* seq is not a field of the program's entry: it records the admission number.
PushEntry(entries, ts, seq, t) ==
    Append(entries, [offlineId |-> t, pendingSync |-> TRUE, timestamp |-> ts, seq |-> seq])

\* entries.filter(entry => entry.pendingSync)
getPendingOfflineEntries(entries) == SelectSeq(entries, LAMBDA e : e.pendingSync)

\* an element of the stored array that is null instead of an entry (the stored
\* text is JSON, JSON.parse accepts it)
JsonNull == [offlineId |-> NotSet, pendingSync |-> FALSE, timestamp |-> NotSet]

IsNull(e) == e.offlineId = NotSet

\* getPendingOfflineEntries as a whole: try { getItem; JSON.parse; filter }
\* catch { return [] }.  getItem can reject (ok is FALSE), and the filter reads
\* entry.pendingSync of every element, which throws a TypeError on null.
getPendingOfflineEntries_try(entries, ok) ==
    IF ok /\ \A i \in 1..Len(entries) : ~IsNull(entries[i])
    THEN getPendingOfflineEntries(entries)
    ELSE <<>>

\* a map that flips pendingSync of the named entries (pendingSync: !entry.pendingSync)
MarkToggled(entries, offlineIds) ==
    [i \in 1..Len(entries) |->
        IF entries[i].offlineId \in offlineIds
        THEN [entries[i] EXCEPT !.pendingSync = ~@]
        ELSE entries[i]]

\* entries.map(entry => offlineIds.includes(entry.offlineId) ? {...entry, pendingSync: false} : entry)
MarkSynced(entries, offlineIds) ==
    [i \in 1..Len(entries) |->
        IF entries[i].offlineId \in offlineIds
        THEN [entries[i] EXCEPT !.pendingSync = FALSE]
        ELSE entries[i]]

\* a filter that keeps by age alone (entry.pendingSync || dropped)
KeepEntryByAge(e, t) == e.timestamp > t - SevenDays

\* entries.filter(entry => entry.pendingSync || new Date(entry.timestamp).getTime() > sevenDaysAgo)
KeepEntry(e, t) == e.pendingSync \/ e.timestamp > t - SevenDays

\* a filter that hands back the kept entries newest first (filter(...).reverse())
PruneOldReversed(entries, t) ==
    LET kept == SelectSeq(entries, LAMBDA e : KeepEntry(e, t))
    IN [i \in 1..Len(kept) |-> kept[Len(kept) + 1 - i]]

PruneOld(entries, t) == SelectSeq(entries, LAMBDA e : KeepEntry(e, t))

\* the admission numbers of the entries pending in before and synced in after
Moved(before, after) ==
    {k \in Seqs(before) :
        /\ \E i \in 1..Len(before) : before[i].seq = k /\ before[i].pendingSync
        /\ \E j \in 1..Len(after) : after[j].seq = k /\ ~after[j].pendingSync}

\* the entries markEntriesAsSynced writes back, from the entries it read
markEntriesAsSynced_entries(entries, offlineIds, t) == PruneOld(MarkSynced(entries, offlineIds), t)

(***************************************************************************)
(* Initial state: a fresh installation, the component mounted and the      *)
(* listener called with the first NetInfo state (nothing is pending, so    *)
(* no prompt is shown).                                                    *)
(***************************************************************************)
\* error is what this recordMood call hands to setError: "null" at its start;
\* isConnected is the isConnected of the render whose recordMood is running: the
\* function closes over the state of its render, and streak is the streak of
\* that render, which the call puts into its entry
IdleSaver ==
    [pc |-> "idle", entries |-> <<>>, ts |-> 0, ret |-> FALSE, error |-> "null", isConnected |-> FALSE,
     streak |-> 0]

NoResult == [kind |-> "none", success |-> FALSE, synced |-> 0, failed |-> 0, errors |-> <<>>]

\* acks, cancelled and moved are not variables of the program: acks records,
\* by position in the snapshot, whether the delivery was taken as acknowledged;
\* cancelled, that the interval whose callback this is has been cleared;
\* moved, how many stored entries the pass's write turned from pending to synced.
\* count is pendingCount of the interval callback.
IdlePass ==
    [pc |-> "idle", src |-> "none", pending |-> <<>>, i |-> 0,
     syncedIds |-> <<>>, entries |-> <<>>, result |-> NoResult, acks |-> <<>>,
     cancelled |-> FALSE, moved |-> 0, count |-> 0]

NoLoads == [count |-> 0, time |-> 0, done |-> 0]

\* the component after its first render: the effect has run once,
\* scheduleBackgroundSync(serverUrl, 15) has set one interval
Mounted == [mounted |-> TRUE, intervals |-> 1]

\* responses: the answers the endpoint is set to give to a pass, one per
\* entry of its snapshot
NoCalls ==
    [calls |-> 0, offlineIds |-> {}, before |-> <<>>, first |-> <<>>, at |-> <<>>, wrote |-> <<>>,
     responses |-> <<>>]

Init ==
    /\ offlineEntries = <<>>
    /\ lastSyncTimestamp = NotSet
    /\ now = 0
    /\ saver = [k \in Saves |-> IdleSaver]
    /\ pass = [p \in Passes |-> IdlePass]
    /\ admitted = 0
    /\ started = 0
    /\ acked = [k \in Saves |-> 0]
    /\ netConnected \in BOOLEAN
    /\ netEvents = 0
    /\ isConnected \in {c \in BOOLEAN : c => netConnected}
    /\ pendingEntries = 0
    /\ isSyncing = FALSE
    /\ alerts = 0
    /\ api = NoCalls
    /\ lastSyncTime = NotSet
    /\ loading = NoLoads
    /\ syncStatus = "null"
    /\ component = Mounted
    /\ streak = 0

(***************************************************************************)
(* The clock.  Date.now() never runs backwards in the model; it advances   *)
(* by a millisecond or by a whole retention window.                        *)
(***************************************************************************)
Ticks == (now \div SevenDays) + (now % SevenDays)

\* operations so far
Ops == admitted + started + netEvents + Ticks + loading.done

TickMs ==
    /\ Ops < MaxOps
    /\ now' = now + 1
    /\ UNCHANGED <<offlineEntries, lastSyncTimestamp, saver, pass, admitted, started, acked,
                   netConnected, netEvents, isConnected, pendingEntries, isSyncing, alerts, api, lastSyncTime, loading, syncStatus, component, streak>>

TickWeek ==
    /\ Ops < MaxOps
    /\ now \div SevenDays < MaxWeeks
    /\ now' = now + SevenDays
    /\ UNCHANGED <<offlineEntries, lastSyncTimestamp, saver, pass, admitted, started, acked,
                   netConnected, netEvents, isConnected, pendingEntries, isSyncing, alerts, api, lastSyncTime, loading, syncStatus, component, streak>>

(***************************************************************************)
(* recordMood, offline path, and saveOfflineEntry.                         *)
(***************************************************************************)
\* the cap of the streak: Math.min(..., 7) in App.js and in server/index.js
StreakCap == 7

Math_min(a, b) == IF a < b THEN a ELSE b

\* a streak that is counted up without a cap
NewStreakUncapped(s) == s + 1

\* const newStreak = Math.min((streak || 0) + 1, 7), streak being a number
recordMood_newStreak(s) == Math_min(s + 1, StreakCap)

\* recordMood builds the entry (timestamp: new Date().toISOString()), finds the app
\* offline and calls saveOfflineEntry, which awaits AsyncStorage.getItem.
recordMood_saveOfflineEntry(k) ==
    /\ k = admitted + 1
    /\ Ops < MaxOps
    /\ ~isConnected
    /\ admitted' = k
    /\ \E ok \in BOOLEAN :
         saver' = [saver EXCEPT ![k] =
                     IF ok
                     THEN [IdleSaver EXCEPT !.pc = "write", !.entries = offlineEntries, !.ts = now,
                                            !.streak = streak]
                     ELSE [IdleSaver EXCEPT !.pc = "returned", !.ts = now]]
    /\ UNCHANGED <<offlineEntries, lastSyncTimestamp, now, pass, started, acked,
                   netConnected, netEvents, isConnected, pendingEntries, isSyncing, alerts, api, lastSyncTime, loading, syncStatus, component, streak>>

\* existingEntries.push(...); await AsyncStorage.setItem(...); return true
\* (catch: return false); recordMood goes on at once: on true setStreak(newStreak),
\* and it calls refreshPendingCount()
saveOfflineEntry_setItem(k) ==
    /\ saver[k].pc = "write"
    /\ \E ok \in BOOLEAN :
         /\ offlineEntries' = IF ok THEN PushEntry(saver[k].entries, saver[k].ts, k, now) ELSE offlineEntries
         /\ saver' = [saver EXCEPT ![k] = [@ EXCEPT !.pc = "returned", !.entries = <<>>, !.ret = ok,
                                                     !.streak = 0]]
         /\ streak' = IF ok THEN recordMood_newStreak(saver[k].streak) ELSE streak
    /\ UNCHANGED <<lastSyncTimestamp, now, pass, admitted, started, acked,
                   netConnected, netEvents, isConnected, pendingEntries, isSyncing, alerts, api, lastSyncTime, loading, syncStatus, component>>

\* getPendingEntryCount: (await getPendingOfflineEntries()).length, [] when the read throws
getPendingEntryCount(ok) == Len(getPendingOfflineEntries_try(offlineEntries, ok))

\* the function scheduleBackgroundSync returns: clearInterval(intervalId).  No
\* later tick fires from that interval; a callback of it that is running is
\* not touched and goes on after its await.
cancelBackgroundSync(passes) ==
    [p \in Passes |->
        IF passes[p].src = "timer" /\ passes[p].pc \notin {"idle", "end"}
        THEN [passes[p] EXCEPT !.cancelled = TRUE]
        ELSE passes[p]]

\* a clean-up that leaves the interval set
clearNothing(n) == n

\* clearInterval(intervalId), of the interval the effect set
clearInterval(n) == n - 1

\* const intervalId = setInterval(...)
scheduleBackgroundSync(n) == n + 1

\* the effect run anew on a changed dependency: the clean-up of the run before
\* (cancelBackgroundSync()), then scheduleBackgroundSync(serverUrl, 15)
useEffect_rerun(c) == [c EXCEPT !.intervals = scheduleBackgroundSync(clearInterval(@))]

useEffect_pendingEntries(c, count) == IF count # pendingEntries THEN useEffect_rerun(c) ELSE c

\* setPendingEntries(count): a changed count is a changed dependency of the
\* effect [serverUrl, pendingEntries], so its clean-up runs (unsubscribe();
\* cancelBackgroundSync()) and the effect subscribes and schedules anew.
setPendingEntries(passes, count) ==
    IF count # pendingEntries THEN cancelBackgroundSync(passes) ELSE passes

\* ... and the effect, run anew, calls loadOfflineData(), which awaits
\* getPendingEntryCount()
useEffect_loadOfflineData(loads, count) ==
    IF count # pendingEntries THEN [loads EXCEPT !.count = @ + 1] ELSE loads

\* new Date(parseInt(ms)).toLocaleString(): date and time of day to the second
toLocaleString(ms) == ms \div 1000

\* a recordMood that takes every return of saveOfflineEntry as a success
recordMood_catchNothing(saveResult) == "null"

\* if (saveResult) {...} else { throw new Error('Failed to save entry offline') };
\* catch (err): neither an AbortError nor a 'Network request failed', so
\* setError(`Error: ${err.message}`)
recordMood_catch(saveResult) ==
    IF saveResult THEN "null" ELSE "Error: Failed to save entry offline"

\* recordMood after saveOfflineEntry returned: on true, await refreshPendingCount();
\* on false it throws 'Failed to save entry offline', which its catch shows.
recordMood_refreshPendingCount(k) ==
    /\ saver[k].pc = "returned"
    /\ saver' = [saver EXCEPT ![k] = [@ EXCEPT !.pc = "done", !.ts = 0,
                                                !.error = recordMood_catch(saver[k].ret)]]
    /\ \E ok \in BOOLEAN :
         /\ pendingEntries' = IF saver[k].ret THEN getPendingEntryCount(ok) ELSE pendingEntries
         /\ pass' = setPendingEntries(pass, pendingEntries')
         /\ loading' = useEffect_loadOfflineData(loading, pendingEntries')
         /\ component' = useEffect_pendingEntries(component, pendingEntries')
    /\ UNCHANGED <<offlineEntries, lastSyncTimestamp, now, admitted, started, acked,
                   netConnected, netEvents, isConnected, isSyncing, alerts, api, lastSyncTime, syncStatus, streak>>

\* loadOfflineData: const count = await getPendingEntryCount(); setPendingEntries(count);
\* then it awaits getLastSyncTime()
\* (a set-state call of a component that has been unmounted changes nothing)
loadOfflineData_count ==
    /\ loading.count > 0
    /\ Ops < MaxOps
    /\ \E ok \in BOOLEAN :
         /\ pendingEntries' = IF component.mounted THEN getPendingEntryCount(ok) ELSE pendingEntries
         /\ pass' = setPendingEntries(pass, pendingEntries')
         /\ loading' = useEffect_loadOfflineData(
                          [count |-> loading.count - 1, time |-> loading.time + 1, done |-> loading.done + 1], pendingEntries')
         /\ component' = useEffect_pendingEntries(component, pendingEntries')
    /\ UNCHANGED <<offlineEntries, lastSyncTimestamp, now, saver, admitted, started, acked,
                   netConnected, netEvents, isConnected, isSyncing, alerts, api, lastSyncTime, syncStatus, streak>>

\* getLastSyncTime: the stored string, null when the key is absent or the read
\* throws; if (syncTime) setLastSyncTime(new Date(parseInt(syncTime)).toLocaleString())
getLastSyncTime(ok) == IF ok THEN lastSyncTimestamp ELSE NotSet

loadOfflineData_time ==
    /\ loading.time > 0
    /\ loading' = [loading EXCEPT !.time = @ - 1]
    /\ \E ok \in BOOLEAN :
         lastSyncTime' = IF getLastSyncTime(ok) # NotSet /\ component.mounted
                         THEN toLocaleString(getLastSyncTime(ok))
                         ELSE lastSyncTime
    /\ UNCHANGED <<offlineEntries, lastSyncTimestamp, now, saver, pass, admitted, started, acked,
                   netConnected, netEvents, isConnected, pendingEntries, isSyncing, alerts, api, syncStatus, component, streak>>

(***************************************************************************)
(* syncOfflineEntries and its callers.                                     *)
(***************************************************************************)
\* a syncOfflineEntries that does not test netInfo.isConnected
FetchRegardless(src, ok) ==
    IF ~ok
    THEN [IdlePass EXCEPT !.pc = "done", !.src = src, !.result = [NoResult EXCEPT !.kind = "thrown"]]
    ELSE [IdlePass EXCEPT !.pc = "list", !.src = src]

\* syncOfflineEntries up to its first storage access: await NetInfo.fetch(),
\* which stands before the try: when it rejects, syncOfflineEntries rejects
\* (result kind "thrown": no result is returned);
\* not connected: return {success: false, synced: 0, failed: 0, error: ...}
syncOfflineEntries_fetch(src, ok) ==
    IF ~ok
    THEN [IdlePass EXCEPT !.pc = "done", !.src = src, !.result = [NoResult EXCEPT !.kind = "thrown"]]
    ELSE IF netConnected
    THEN [IdlePass EXCEPT !.pc = "list", !.src = src]
    ELSE [IdlePass EXCEPT !.pc = "done", !.src = src, !.result = [NoResult EXCEPT !.kind = "noNet"]]

\* synchronizeOfflineEntries: setIsSyncing(true); setSyncStatus('Syncing offline
\* entries...'); ...; await syncOfflineEntries(serverUrl)
\* (the server URL is taken as configured)
synchronizeOfflineEntries(p) ==
    /\ p = started + 1
    /\ Ops < MaxOps
    /\ started' = p
    /\ isSyncing' = TRUE
    /\ syncStatus' = "syncing"
    /\ \E ok \in BOOLEAN : pass' = [pass EXCEPT ![p] = syncOfflineEntries_fetch("ui", ok)]

\* the Sync button, rendered while pendingEntries > 0
SyncButton_onPress(p) ==
    /\ pendingEntries > 0
    /\ synchronizeOfflineEntries(p)
    /\ UNCHANGED <<offlineEntries, lastSyncTimestamp, now, saver, admitted, acked,
                   netConnected, netEvents, isConnected, pendingEntries, alerts, api, lastSyncTime, loading, component, streak>>

\* 'Sync Now' of the 'Internet Connection Restored' prompt
Alert_SyncNow(p) ==
    /\ alerts > 0
    /\ alerts' = alerts - 1
    /\ synchronizeOfflineEntries(p)
    /\ UNCHANGED <<offlineEntries, lastSyncTimestamp, now, saver, admitted, acked,
                   netConnected, netEvents, isConnected, pendingEntries, api, lastSyncTime, loading, component, streak>>

\* 'Sync Later' of the prompt
Alert_SyncLater ==
    /\ alerts > 0
    /\ alerts' = alerts - 1
    /\ UNCHANGED <<offlineEntries, lastSyncTimestamp, now, saver, pass, admitted, started, acked,
                   netConnected, netEvents, isConnected, pendingEntries, isSyncing, api, lastSyncTime, loading, syncStatus, component, streak>>

\* scheduleBackgroundSync, the interval callback: await getPendingEntryCount()
scheduleBackgroundSync_tick(p) ==
    /\ component.intervals > 0
    /\ p = started + 1
    /\ Ops < MaxOps
    /\ started' = p
    /\ pass' = [pass EXCEPT ![p] = [IdlePass EXCEPT !.pc = "count", !.src = "timer"]]
    /\ UNCHANGED <<offlineEntries, lastSyncTimestamp, now, saver, admitted, acked,
                   netConnected, netEvents, isConnected, pendingEntries, isSyncing, alerts, api, lastSyncTime, loading, syncStatus, component, streak>>

\* a callback that syncs at every tick (no test of the count)
IfPendingOrNot(pendingCount) == pendingCount >= 0

\* if (pendingCount > 0)
scheduleBackgroundSync_ifPending(pendingCount) == pendingCount > 0

\* ... if (pendingCount > 0) await syncOfflineEntries(serverUrl)
scheduleBackgroundSync_check(p) ==
    /\ pass[p].pc = "count"
    /\ \E ok \in BOOLEAN, okNet \in BOOLEAN :
         LET pendingCount == getPendingEntryCount(ok) IN
         pass' = [pass EXCEPT ![p] =
                    IF scheduleBackgroundSync_ifPending(pendingCount)
                    THEN [syncOfflineEntries_fetch("timer", okNet) EXCEPT !.cancelled = pass[p].cancelled,
                                                                          !.count = pendingCount]
                    ELSE [IdlePass EXCEPT !.pc = "end", !.src = "timer", !.count = pendingCount]]
    /\ UNCHANGED <<offlineEntries, lastSyncTimestamp, now, saver, admitted, started, acked,
                   netConnected, netEvents, isConnected, pendingEntries, isSyncing, alerts, api, lastSyncTime, loading, syncStatus, component, streak>>

\* results.success = false when results.failed > 0; return results
syncOfflineEntries_return(q) == [q EXCEPT !.pc = "done", !.result.success = (q.result.failed = 0)]

\* const pendingEntries = await getPendingOfflineEntries(), which gives [] when
\* its read throws; length 0: return {success: true, synced: 0, failed: 0}
\* (kind is not a field of the program's result: it records how the result came
\* about, "unread" for the [] of a rejected getItem, "untyped" for the [] of a
\* TypeError in the filter)
syncOfflineEntries_list(p) ==
    /\ pass[p].pc = "list"
    /\ \E ok \in BOOLEAN :
         LET snapshot == getPendingOfflineEntries_try(offlineEntries, ok) IN
         pass' = [pass EXCEPT ![p] =
                    IF Len(snapshot) = 0
                    THEN [@ EXCEPT !.pc = "done",
                                   !.result = [NoResult EXCEPT
                                                 !.kind = IF ~ok THEN "unread"
                                                          ELSE IF \E i \in 1..Len(offlineEntries) : IsNull(offlineEntries[i])
                                                          THEN "untyped"
                                                          ELSE "empty",
                                                 !.success = TRUE]]
                    ELSE [@ EXCEPT !.pc = "loop", !.pending = snapshot, !.i = 1,
                                   !.result = [NoResult EXCEPT !.kind = "counts", !.success = TRUE]]]
    /\ UNCHANGED <<offlineEntries, lastSyncTimestamp, now, saver, admitted, started, acked,
                   netConnected, netEvents, isConnected, pendingEntries, isSyncing, alerts, api, lastSyncTime, loading, syncStatus, component, streak>>

\* what await fetch(serverUrl, ...) and await response.json() can give: fetch
\* rejects (no route to the server) or is aborted by AbortSignal.timeout(8000),
\* or the server answers with a status and a body.  The body is no JSON, or
\* JSON whose success field is true, false, absent, or a value that is not a
\* boolean but truthy (1, "false", {}).
Statuses == {200, 500}

Bodies == {"malformed", "true", "false", "absent", "truthy"}

Responses ==
    {[kind |-> k, status |-> 0, body |-> "none"] : k \in {"networkError", "timeout"}}
        \cup {[kind |-> "answer", status |-> st, body |-> b] : st \in Statuses, b \in Bodies}

\* if (!response.ok) throw ...; const data = await response.json();
\* if (data.success) {...} else throw ...
\* response.ok is status in 200..299; response.json() throws on a malformed
\* body; if (data.success) takes every truthy value.
Delivered(response) ==
    /\ response.kind = "answer"
    /\ response.status \in 200..299
    /\ response.body # "malformed"
    /\ response.body \in {"true", "truthy"}

\* the answer is a 2xx whose body has success: true
SuccessTrue(response) ==
    /\ response.kind = "answer"
    /\ response.status \in 200..299
    /\ response.body = "true"

\* a loop that stops at the first failed delivery (break in the catch)
LoopBodyFailFast(q, ack) ==
    LET entry == q.pending[q.i] IN
    IF ack
    THEN [q EXCEPT !.i = @ + 1,
                   !.acks = Append(@, TRUE),
                   !.syncedIds = Append(@, entry.offlineId),
                   !.result.synced = @ + 1]
    ELSE [q EXCEPT !.i = Len(q.pending) + 1,
                   !.acks = Append(@, FALSE),
                   !.result.failed = @ + 1,
                   !.result.errors = Append(@, entry.offlineId)]

\* a loop that tries a failed delivery again at once (no step to the next entry
\* in the catch)
LoopBodyRetry(q, ack) ==
    LET entry == q.pending[q.i] IN
    IF ack
    THEN [q EXCEPT !.i = @ + 1,
                   !.acks = Append(@, TRUE),
                   !.syncedIds = Append(@, entry.offlineId),
                   !.result.synced = @ + 1]
    ELSE [q EXCEPT !.acks = Append(@, FALSE),
                   !.result.failed = @ + 1,
                   !.result.errors = Append(@, entry.offlineId)]

\* one turn of the loop over pendingEntries: a delivery the endpoint acknowledges
\* (response.ok and data.success) or not (any throw inside the try)
syncOfflineEntries_loopBody(q, ack) ==
    LET entry == q.pending[q.i] IN
    IF ack
    THEN [q EXCEPT !.i = @ + 1,
                   !.acks = Append(@, TRUE),
                   !.syncedIds = Append(@, entry.offlineId),
                   !.result.synced = @ + 1]
    ELSE [q EXCEPT !.i = @ + 1,
                   !.acks = Append(@, FALSE),
                   !.result.failed = @ + 1,
                   !.result.errors = Append(@, entry.offlineId)]

\* after the last entry: if (syncedIds.length > 0) await markEntriesAsSynced(syncedIds)
syncOfflineEntries_afterLoop(q) ==
    IF q.i <= Len(q.pending) THEN q
    ELSE IF Len(q.syncedIds) > 0 THEN [q EXCEPT !.pc = "markRead"]
    ELSE syncOfflineEntries_return(q)

syncOfflineEntries_deliver(p) ==
    /\ pass[p].pc = "loop"
    /\ \E response \in Responses :
         LET ack == Delivered(response) IN
         /\ pass' = [pass EXCEPT ![p] = syncOfflineEntries_afterLoop(syncOfflineEntries_loopBody(@, ack))]
         /\ acked' = IF ack
                     THEN [acked EXCEPT ![pass[p].pending[pass[p].i].seq] =
                                            IF @ < MaxAcks THEN @ + 1 ELSE @]
                     ELSE acked
    /\ UNCHANGED <<offlineEntries, lastSyncTimestamp, now, saver, admitted, started,
                   netConnected, netEvents, isConnected, pendingEntries, isSyncing, alerts, api, lastSyncTime, loading, syncStatus, component, streak>>

\* markEntriesAsSynced: await AsyncStorage.getItem(OFFLINE_ENTRIES_KEY); a throw
\* is caught, markEntriesAsSynced returns false and the pass goes on
markEntriesAsSynced_getItem(p) ==
    /\ pass[p].pc = "markRead"
    /\ \E ok \in BOOLEAN :
         pass' = [pass EXCEPT ![p] =
                    IF ok THEN [@ EXCEPT !.pc = "markWrite", !.entries = offlineEntries]
                    ELSE syncOfflineEntries_return(@)]
    /\ UNCHANGED <<offlineEntries, lastSyncTimestamp, now, saver, admitted, started, acked,
                   netConnected, netEvents, isConnected, pendingEntries, isSyncing, alerts, api, lastSyncTime, loading, syncStatus, component, streak>>

\* map, filter, await AsyncStorage.setItem(OFFLINE_ENTRIES_KEY, ...)
markEntriesAsSynced_setItem(p) ==
    /\ pass[p].pc = "markWrite"
    /\ \E ok \in BOOLEAN :
         /\ offlineEntries' = IF ok
                     THEN markEntriesAsSynced_entries(pass[p].entries, Range(pass[p].syncedIds), now)
                     ELSE offlineEntries
         /\ pass' = [pass EXCEPT ![p] =
                       IF ok THEN [@ EXCEPT !.pc = "lastSync", !.entries = <<>>,
                                            !.moved = Cardinality(Moved(offlineEntries, offlineEntries'))]
                       ELSE syncOfflineEntries_return([@ EXCEPT !.entries = <<>>])]
    /\ UNCHANGED <<lastSyncTimestamp, now, saver, admitted, started, acked,
                   netConnected, netEvents, isConnected, pendingEntries, isSyncing, alerts, api, lastSyncTime, loading, syncStatus, component, streak>>

\* a stamp that is cleared when the call marked no entry
LastSyncOrNone(q, t) == IF q.moved = 0 THEN NotSet ELSE t

\* the value stored under LAST_SYNC_KEY by the call of pass record q at time t:
\* Date.now().toString(), whatever the call marked
markEntriesAsSynced_lastSync(q, t) == t

\* await AsyncStorage.setItem(LAST_SYNC_KEY, Date.now().toString())
markEntriesAsSynced_setLastSync(p) ==
    /\ pass[p].pc = "lastSync"
    /\ \E ok \in BOOLEAN :
         lastSyncTimestamp' = IF ok THEN markEntriesAsSynced_lastSync(pass[p], now) ELSE lastSyncTimestamp
    /\ pass' = [pass EXCEPT ![p] = syncOfflineEntries_return(@)]
    /\ UNCHANGED <<offlineEntries, now, saver, admitted, started, acked,
                   netConnected, netEvents, isConnected, pendingEntries, isSyncing, alerts, api, lastSyncTime, loading, syncStatus, component, streak>>

\* a summary that tells partial from failed by result.failed
setSyncStatusByFailed(result) ==
    IF result.success THEN "complete"
    ELSE IF result.failed > 0 THEN "partial"
    ELSE "failed"

\* the summary synchronizeOfflineEntries shows for a result: 'Sync complete! ...'
\* if result.success, else 'Partial sync: ...' if result.synced > 0, else
\* 'Sync failed: ...'
setSyncStatus(result) ==
    IF result.success THEN "complete"
    ELSE IF result.synced > 0 THEN "partial"
    ELSE "failed"

\* the caller after syncOfflineEntries returned.  synchronizeOfflineEntries:
\* setSyncStatus(...), await refreshPendingCount(),
\* setLastSyncTime(new Date(parseInt(Date.now().toString())).toLocaleString()),
\* finally setIsSyncing(false); when syncOfflineEntries rejected, the catch:
\* setSyncStatus(`Sync error: ...`), then the finally.  The interval callback
\* does nothing more.
synchronizeOfflineEntries_finally(p) ==
    /\ pass[p].pc = "done"
    /\ LET ended == [pass EXCEPT ![p] = [IdlePass EXCEPT !.pc = "end", !.src = pass[p].src]] IN
       IF pass[p].src = "ui" /\ pass[p].result.kind = "thrown"
       THEN /\ pass' = ended
            /\ syncStatus' = "error"
            /\ isSyncing' = FALSE
            /\ UNCHANGED <<pendingEntries, lastSyncTime, loading, component>>
       ELSE IF pass[p].src = "ui"
       THEN /\ \E ok \in BOOLEAN :
                 /\ pendingEntries' = getPendingEntryCount(ok)
                 /\ pass' = setPendingEntries(ended, pendingEntries')
                 /\ loading' = useEffect_loadOfflineData(loading, pendingEntries')
                 /\ component' = useEffect_pendingEntries(component, pendingEntries')
            /\ syncStatus' = setSyncStatus(pass[p].result)
            /\ lastSyncTime' = toLocaleString(now)
            /\ isSyncing' = FALSE
       ELSE /\ pass' = ended
            /\ UNCHANGED <<pendingEntries, isSyncing, lastSyncTime, loading, syncStatus, component>>
    /\ UNCHANGED <<offlineEntries, lastSyncTimestamp, now, saver, admitted, started, acked,
                   netConnected, netEvents, isConnected, alerts, api, streak>>

(***************************************************************************)
(* The NetInfo listener of App.js.                                         *)
(***************************************************************************)
\* setIsConnected(state.isConnected && state.isInternetReachable);
\* if (state.isConnected && pendingEntries > 0) Alert.alert('Internet Connection Restored', ...)
NetInfo_listener(conn, reach) ==
    /\ Ops < MaxOps
    /\ netEvents' = netEvents + 1
    /\ netConnected' = conn
    /\ isConnected' = (conn /\ reach)
    /\ IF conn /\ pendingEntries > 0
       THEN /\ alerts < MaxAlerts
            /\ alerts' = alerts + 1
       ELSE alerts' = alerts
    /\ UNCHANGED <<offlineEntries, lastSyncTimestamp, now, saver, pass, admitted, started, acked,
                   pendingEntries, isSyncing, api, lastSyncTime, loading, syncStatus, component, streak>>

(***************************************************************************)
(* The specification.                                                      *)
(***************************************************************************)
Next ==
    \/ TickMs
    \/ TickWeek
    \/ \E k \in Saves : recordMood_saveOfflineEntry(k)
    \/ \E k \in Saves : saveOfflineEntry_setItem(k)
    \/ \E k \in Saves : recordMood_refreshPendingCount(k)
    \/ loadOfflineData_count
    \/ loadOfflineData_time
    \/ \E p \in Passes : SyncButton_onPress(p)
    \/ \E p \in Passes : Alert_SyncNow(p)
    \/ Alert_SyncLater
    \/ \E p \in Passes : scheduleBackgroundSync_tick(p)
    \/ \E p \in Passes : scheduleBackgroundSync_check(p)
    \/ \E p \in Passes : syncOfflineEntries_list(p)
    \/ \E p \in Passes : syncOfflineEntries_deliver(p)
    \/ \E p \in Passes : markEntriesAsSynced_getItem(p)
    \/ \E p \in Passes : markEntriesAsSynced_setItem(p)
    \/ \E p \in Passes : markEntriesAsSynced_setLastSync(p)
    \/ \E p \in Passes : synchronizeOfflineEntries_finally(p)
    \/ \E conn \in BOOLEAN, reach \in BOOLEAN : NetInfo_listener(conn, reach)

Spec == Init /\ [][Next]_vars

(***************************************************************************)
(* markEntriesAsSynced as an exported function: a caller that calls it     *)
(* twice in a row with the same ids, on any stored list.                   *)
(***************************************************************************)
\* length of the stored list the caller starts from
MaxLen == 2

\* the entries a offlineEntries can hold at time 1: written at 0 or 1, the id never
\* earlier than the timestamp
EntryShapes ==
    {e \in [offlineId : 0..1, pendingSync : BOOLEAN, timestamp : 0..1] :
        e.offlineId >= e.timestamp}

Numbered(shapes) ==
    [i \in 1..Len(shapes) |->
        [offlineId |-> shapes[i].offlineId, pendingSync |-> shapes[i].pendingSync,
         timestamp |-> shapes[i].timestamp, seq |-> i]]

StoredLists == UNION {{Numbered(l) : l \in [1..n -> EntryShapes]} : n \in 0..MaxLen}

InitMark ==
    /\ offlineEntries \in StoredLists
    /\ lastSyncTimestamp = NotSet
    /\ now = 1
    /\ saver = [k \in Saves |-> IdleSaver]
    /\ pass = [p \in Passes |-> IdlePass]
    /\ admitted = 0
    /\ started = 0
    /\ acked = [k \in Saves |-> 0]
    /\ netConnected = TRUE
    /\ netEvents = 0
    /\ isConnected = TRUE
    /\ pendingEntries = 0
    /\ isSyncing = FALSE
    /\ alerts = 0
    /\ \E ids \in SUBSET (0..2) : api = [NoCalls EXCEPT !.offlineIds = ids]
    /\ lastSyncTime = NotSet
    /\ loading = NoLoads
    /\ syncStatus = "null"
    /\ component = Mounted
    /\ streak = 0

\* one whole call markEntriesAsSynced(offlineIds): getItem, map, filter, setItem,
\* setItem(LAST_SYNC_KEY); a throw of any of them is caught and false returned
markEntriesAsSynced ==
    /\ api.calls < 2
    /\ \E okRead \in BOOLEAN, okWrite \in BOOLEAN, okLast \in BOOLEAN :
         LET wrote == okRead /\ okWrite
             after == IF wrote THEN markEntriesAsSynced_entries(offlineEntries, api.offlineIds, now) ELSE offlineEntries
         IN /\ offlineEntries' = after
            /\ lastSyncTimestamp' = IF wrote /\ okLast THEN now ELSE lastSyncTimestamp
            /\ api' = [api EXCEPT !.calls = @ + 1,
                                  !.before = IF api.calls = 0 THEN offlineEntries ELSE @,
                                  !.first = IF api.calls = 0 THEN after ELSE @,
                                  !.at = Append(@, now),
                                  !.wrote = Append(@, wrote)]
    /\ UNCHANGED <<now, saver, pass, admitted, started, acked,
                   netConnected, netEvents, isConnected, pendingEntries, isSyncing, alerts, lastSyncTime, loading, syncStatus, component, streak>>

NextMark ==
    \/ TickMs
    \/ TickWeek
    \/ markEntriesAsSynced

SpecMark == InitMark /\ [][NextMark]_vars

(***************************************************************************)
(* The loop of syncOfflineEntries against an endpoint whose answers are    *)
(* set beforehand: a pass has listed the pending entries of any stored     *)
(* list, and the endpoint answers the delivery of each in any way.         *)
(***************************************************************************)
InitFetch ==
    /\ offlineEntries \in {l \in StoredLists : Len(getPendingOfflineEntries(l)) > 0}
    /\ lastSyncTimestamp = NotSet
    /\ now = 1
    /\ saver = [k \in Saves |-> IdleSaver]
    /\ pass = [p \in Passes |->
                 IF p = 1
                 THEN [IdlePass EXCEPT !.pc = "loop", !.src = "timer",
                                       !.pending = getPendingOfflineEntries(offlineEntries), !.i = 1,
                                       !.result = [NoResult EXCEPT !.kind = "counts", !.success = TRUE]]
                 ELSE IdlePass]
    /\ admitted = 0
    /\ started = 1
    /\ acked = [k \in Saves |-> 0]
    /\ netConnected = TRUE
    /\ netEvents = 0
    /\ isConnected = TRUE
    /\ pendingEntries = 0
    /\ isSyncing = FALSE
    /\ alerts = 0
    /\ \E rs \in [1..Len(getPendingOfflineEntries(offlineEntries)) -> Responses] :
          api = [NoCalls EXCEPT !.responses = rs]
    /\ lastSyncTime = NotSet
    /\ loading = NoLoads
    /\ syncStatus = "null"
    /\ component = Mounted
    /\ streak = 0

\* one turn of the loop, the endpoint giving the answer set for this entry
syncOfflineEntries_deliverSet(p) ==
    /\ pass[p].pc = "loop"
    /\ pass[p].i <= Len(api.responses)
    /\ LET ack == Delivered(api.responses[pass[p].i]) IN
         pass' = [pass EXCEPT ![p] = syncOfflineEntries_afterLoop(syncOfflineEntries_loopBody(@, ack))]
    /\ UNCHANGED <<offlineEntries, lastSyncTimestamp, now, saver, admitted, started, acked,
                   netConnected, netEvents, isConnected, pendingEntries, isSyncing, alerts, api,
                   lastSyncTime, loading, syncStatus, component, streak>>

NextFetch == \E p \in Passes : syncOfflineEntries_deliverSet(p)

SpecFetch == InitFetch /\ [][NextFetch]_vars

(***************************************************************************)
(* A stored array with damaged elements.  The text under                   *)
(* OFFLINE_ENTRIES_KEY is valid JSON, but elements of the array may be     *)
(* null; a pass is about to list the pending entries, and entries are      *)
(* saved meanwhile.                                                        *)
(***************************************************************************)
DamagedLists == UNION {{Numbered(l) : l \in [1..n -> EntryShapes \cup {JsonNull}]} : n \in 0..MaxLen}

InitLoad ==
    /\ offlineEntries \in DamagedLists
    /\ lastSyncTimestamp = NotSet
    /\ now = 1
    /\ saver = [k \in Saves |-> IdleSaver]
    /\ pass = [p \in Passes |-> IF p = 1 THEN [IdlePass EXCEPT !.pc = "list", !.src = "timer"] ELSE IdlePass]
    /\ admitted = 0
    /\ started = 1
    /\ acked = [k \in Saves |-> 0]
    /\ netConnected = TRUE
    /\ netEvents = 0
    /\ isConnected = FALSE
    /\ pendingEntries = 0
    /\ isSyncing = FALSE
    /\ alerts = 0
    /\ api = NoCalls
    /\ lastSyncTime = NotSet
    /\ loading = NoLoads
    /\ syncStatus = "null"
    /\ component = Mounted
    /\ streak = 0

NextLoad ==
    \/ \E p \in Passes : syncOfflineEntries_list(p)
    \/ \E k \in Saves : recordMood_saveOfflineEntry(k)
    \/ \E k \in Saves : saveOfflineEntry_setItem(k)
    \/ \E k \in Saves : recordMood_refreshPendingCount(k)

SpecLoad == InitLoad /\ [][NextLoad]_vars

(***************************************************************************)
(* recordMood, online path: the entry is posted to the server; on a        *)
(* network error the 'Network Error' prompt offers to save it offline.     *)
(***************************************************************************)
\* the body of recordMood as the render with isConnected = connected made it:
\* if (!isConnected) await saveOfflineEntry(entry) (its getItem, ok or not),
\* else await fetch(serverUrl, ...)
\* (s is the streak of that render)
recordMood(connected, s, ok) ==
    IF ~connected
    THEN IF ok
         THEN [IdleSaver EXCEPT !.pc = "write", !.entries = offlineEntries, !.ts = now, !.streak = s]
         ELSE [IdleSaver EXCEPT !.pc = "returned", !.ts = now]
    ELSE [IdleSaver EXCEPT !.pc = "fetch", !.ts = now, !.isConnected = TRUE, !.streak = s]

\* server/index.js, app.post('/record-mood'): const newStreak =
\* Math.min((streak || 0) + 1, 7) of the streak in the request body, sent back
\* as res.json({success: true, streak: newStreak})
post_record_mood(s) == Math_min(s + 1, StreakCap)

\* onPress={recordMood} while the app shows itself connected
recordMood_fetch(k) ==
    /\ k = admitted + 1
    /\ Ops < MaxOps
    /\ isConnected
    /\ admitted' = k
    /\ saver' = [saver EXCEPT ![k] = recordMood(isConnected, streak, TRUE)]
    /\ UNCHANGED <<offlineEntries, lastSyncTimestamp, now, pass, started, acked,
                   netConnected, netEvents, isConnected, pendingEntries, isSyncing, alerts, api,
                   lastSyncTime, loading, syncStatus, component, streak>>

\* what the catch of recordMood makes of a failed submission: the 'Network
\* Error' prompt for 'Network request failed' (no setError), 'Request timed
\* out...' for an AbortError, `Error: ${err.message}` otherwise
recordMood_catchFetch(response) ==
    IF response.kind = "networkError" THEN "null"
    ELSE IF response.kind = "timeout" THEN "Request timed out. Please try again."
    ELSE "Error: server"

\* the fetch settles: if (!response.ok) throw; data = await response.json();
\* if (!data.success) throw; setStreak(data.streak); ...; Alert.alert('Success', ...)
\* (the streak of an answer that is taken as a success is the one the handler
\* of server/index.js sends)
recordMood_response(k) ==
    /\ saver[k].pc = "fetch"
    /\ \E response \in Responses :
         /\ saver' = [saver EXCEPT ![k] =
                        IF Delivered(response) THEN [@ EXCEPT !.pc = "success", !.ts = 0]
                        ELSE IF response.kind = "networkError" THEN [@ EXCEPT !.pc = "alert", !.ts = 0]
                        ELSE [@ EXCEPT !.pc = "done", !.ts = 0, !.error = recordMood_catchFetch(response)]]
         /\ streak' = IF Delivered(response) THEN post_record_mood(saver[k].streak) ELSE streak
    /\ UNCHANGED <<offlineEntries, lastSyncTimestamp, now, pass, admitted, started, acked,
                   netConnected, netEvents, isConnected, pendingEntries, isSyncing, alerts, api,
                   lastSyncTime, loading, syncStatus, component>>

\* 'Save Offline' of the prompt: setIsConnected(false); await recordMood().
\* recordMood here is the function of the render that showed the prompt, and
\* so is the isConnected it tests.
Alert_SaveOffline(k) ==
    /\ saver[k].pc = "alert"
    /\ Ops < MaxOps
    /\ admitted' = admitted + 1
    /\ isConnected' = FALSE
    /\ \E ok \in BOOLEAN :
         saver' = [saver EXCEPT ![k] = [@ EXCEPT !.pc = "done"],
                                ![admitted + 1] = recordMood(saver[k].isConnected, saver[k].streak, ok)]
    /\ UNCHANGED <<offlineEntries, lastSyncTimestamp, now, pass, started, acked,
                   netConnected, netEvents, pendingEntries, isSyncing, alerts, api,
                   lastSyncTime, loading, syncStatus, component, streak>>

\* 'Cancel' of the prompt: setError('Network request failed. Entry was not saved.')
Alert_Cancel(k) ==
    /\ saver[k].pc = "alert"
    /\ saver' = [saver EXCEPT ![k] = [@ EXCEPT !.pc = "done",
                                                !.error = "Network request failed. Entry was not saved."]]
    /\ UNCHANGED <<offlineEntries, lastSyncTimestamp, now, pass, admitted, started, acked,
                   netConnected, netEvents, isConnected, pendingEntries, isSyncing, alerts, api,
                   lastSyncTime, loading, syncStatus, component, streak>>

NextRecord ==
    \/ \E k \in Saves : recordMood_fetch(k)
    \/ \E k \in Saves : recordMood_response(k)
    \/ \E k \in Saves : Alert_SaveOffline(k)
    \/ \E k \in Saves : Alert_Cancel(k)
    \/ \E k \in Saves : recordMood_saveOfflineEntry(k)
    \/ \E k \in Saves : saveOfflineEntry_setItem(k)
    \/ \E k \in Saves : recordMood_refreshPendingCount(k)
    \/ \E conn \in BOOLEAN, reach \in BOOLEAN : NetInfo_listener(conn, reach)

SpecRecord == Init /\ [][NextRecord]_vars

(***************************************************************************)
(* Moods recorded in a session in which moods have been recorded before:   *)
(* the streak is what the recordings so far have made of useState(0).      *)
(***************************************************************************)
InitStreak ==
    /\ offlineEntries = <<>>
    /\ lastSyncTimestamp = NotSet
    /\ now = 0
    /\ saver = [k \in Saves |-> IdleSaver]
    /\ pass = [p \in Passes |-> IdlePass]
    /\ admitted = 0
    /\ started = 0
    /\ acked = [k \in Saves |-> 0]
    /\ netConnected \in BOOLEAN
    /\ netEvents = 0
    /\ isConnected \in {c \in BOOLEAN : c => netConnected}
    /\ pendingEntries = 0
    /\ isSyncing = FALSE
    /\ alerts = 0
    /\ api = NoCalls
    /\ lastSyncTime = NotSet
    /\ loading = NoLoads
    /\ syncStatus = "null"
    /\ component = Mounted
    /\ streak \in 0..StreakCap

SpecStreak == InitStreak /\ [][NextRecord]_vars

(***************************************************************************)
(* The interval of scheduleBackgroundSync, its callbacks one after the     *)
(* other.                                                                  *)
(***************************************************************************)
\* the record of pass that the callbacks of the interval run in, one after
\* the other
TimerPass == 1

\* setInterval fires once more, the callback of the tick before having ended
\* (the interval is 15 minutes, a delivery is aborted after 8 seconds)
scheduleBackgroundSync_nextTick ==
    /\ component.intervals > 0
    /\ pass[TimerPass].pc \in {"idle", "end"}
    /\ pass' = [pass EXCEPT ![TimerPass] = [IdlePass EXCEPT !.pc = "count", !.src = "timer"]]
    /\ UNCHANGED <<offlineEntries, lastSyncTimestamp, now, saver, admitted, started, acked,
                   netConnected, netEvents, isConnected, pendingEntries, isSyncing, alerts, api,
                   lastSyncTime, loading, syncStatus, component, streak>>

(***************************************************************************)
(* The app started on a store left by earlier runs: any list of entries,   *)
(* pending or synced, and the background timer syncing it, one pass after  *)
(* the other, while time goes by.                                          *)
(***************************************************************************)
\* length of the stored list the app starts on
MaxStored == 3

\* entries as saveOfflineEntry writes them: the id is the time of the save
SavedShapes == {e \in EntryShapes : e.offlineId = e.timestamp}

\* push appends, map and filter keep the order: a stored list is in the order
\* of the saves
LeftLists ==
    UNION {{Numbered(l) : l \in {m \in [1..n -> SavedShapes] :
                                   \A i, j \in 1..n : i < j => m[i].timestamp <= m[j].timestamp}} :
           n \in 0..MaxStored}

InitOrder ==
    /\ offlineEntries \in LeftLists
    /\ lastSyncTimestamp = NotSet
    /\ now = 1
    /\ saver = [k \in Saves |-> IdleSaver]
    /\ pass = [p \in Passes |-> IdlePass]
    /\ admitted = 0
    /\ started = 0
    /\ acked = [k \in Saves |-> 0]
    /\ netConnected = TRUE
    /\ netEvents = 0
    /\ isConnected = TRUE
    /\ pendingEntries = 0
    /\ isSyncing = FALSE
    /\ alerts = 0
    /\ api = NoCalls
    /\ lastSyncTime = NotSet
    /\ loading = NoLoads
    /\ syncStatus = "null"
    /\ component = Mounted
    /\ streak = 0

NextOrder ==
    \/ TickWeek
    \/ scheduleBackgroundSync_nextTick
    \/ scheduleBackgroundSync_check(TimerPass)
    \/ syncOfflineEntries_list(TimerPass)
    \/ syncOfflineEntries_deliver(TimerPass)
    \/ markEntriesAsSynced_getItem(TimerPass)
    \/ markEntriesAsSynced_setItem(TimerPass)
    \/ markEntriesAsSynced_setLastSync(TimerPass)
    \/ synchronizeOfflineEntries_finally(TimerPass)

SpecOrder == InitOrder /\ [][NextOrder]_vars

(***************************************************************************)
(* The effect of App.js run again and again.  serverUrl and pendingEntries *)
(* are its dependencies: each change of the server URL text, and each      *)
(* change of the pending count, runs the clean-up of the run before (the   *)
(* interval is cleared) and the effect anew; unmounting runs the clean-up  *)
(* alone.                                                                  *)
(***************************************************************************)
\* the store holds nothing or one entry
InitMount == InitOrder /\ Len(offlineEntries) <= 1

\* onChangeText={setServerUrl}: unsubscribe(); cancelBackgroundSync(); then the
\* effect subscribes, schedules and calls loadOfflineData() anew
TextInput_onChangeText ==
    /\ component.mounted
    /\ Ops + loading.count < MaxOps
    /\ pass' = cancelBackgroundSync(pass)
    /\ loading' = [loading EXCEPT !.count = @ + 1]
    /\ component' = useEffect_rerun(component)
    /\ UNCHANGED <<offlineEntries, lastSyncTimestamp, now, saver, admitted, started, acked,
                   netConnected, netEvents, isConnected, pendingEntries, isSyncing, alerts, api,
                   lastSyncTime, syncStatus, streak>>

\* the component is unmounted: the clean-up of the last run of the effect
App_unmount ==
    /\ component.mounted
    /\ pass' = cancelBackgroundSync(pass)
    /\ component' = [component EXCEPT !.mounted = FALSE, !.intervals = clearInterval(@)]
    /\ UNCHANGED <<offlineEntries, lastSyncTimestamp, now, saver, admitted, started, acked,
                   netConnected, netEvents, isConnected, pendingEntries, isSyncing, alerts, api,
                   lastSyncTime, loading, syncStatus, streak>>

NextMount ==
    \/ TextInput_onChangeText
    \/ App_unmount
    \/ loadOfflineData_count
    \/ loadOfflineData_time
    \/ scheduleBackgroundSync_nextTick
    \/ scheduleBackgroundSync_check(TimerPass)
    \/ syncOfflineEntries_list(TimerPass)
    \/ syncOfflineEntries_deliver(TimerPass)
    \/ markEntriesAsSynced_getItem(TimerPass)
    \/ markEntriesAsSynced_setItem(TimerPass)
    \/ markEntriesAsSynced_setLastSync(TimerPass)
    \/ synchronizeOfflineEntries_finally(TimerPass)

SpecMount == InitMount /\ [][NextMount]_vars

(***************************************************************************)
(* The server URL edited while the timer's pass is in flight.              *)
(***************************************************************************)
InitCancel == InitOrder /\ Len(offlineEntries) <= MaxLen

\* a change of the server URL text while the callback of the interval is
\* inside syncOfflineEntries
TextInput_onChangeTextInFlight ==
    /\ pass[TimerPass].pc \in {"list", "loop", "markRead", "markWrite", "lastSync"}
    /\ ~pass[TimerPass].cancelled
    /\ TextInput_onChangeText

NextCancel ==
    \/ TextInput_onChangeTextInFlight
    \/ loadOfflineData_count
    \/ loadOfflineData_time
    \/ scheduleBackgroundSync_nextTick
    \/ scheduleBackgroundSync_check(TimerPass)
    \/ syncOfflineEntries_list(TimerPass)
    \/ syncOfflineEntries_deliver(TimerPass)
    \/ markEntriesAsSynced_getItem(TimerPass)
    \/ markEntriesAsSynced_setItem(TimerPass)
    \/ markEntriesAsSynced_setLastSync(TimerPass)
    \/ synchronizeOfflineEntries_finally(TimerPass)

SpecCancel == InitCancel /\ [][NextCancel]_vars

(***************************************************************************)
(* Entries saved while a pass is under way.  The callback of the interval  *)
(* has just listed the pending entries of a store left by earlier saves    *)
(* (const pendingEntries = await getPendingOfflineEntries()); the app is   *)
(* in offline mode and recordMood saves further entries while the pass     *)
(* delivers and marks.                                                     *)
(***************************************************************************)
\* the stored entries carry the admission numbers 1..Len(offlineEntries), the
\* saves of this run the numbers after them
InitSnapshot ==
    /\ offlineEntries \in {l \in StoredLists : Len(getPendingOfflineEntries(l)) > 0}
    /\ lastSyncTimestamp = NotSet
    /\ now = 1
    /\ saver = [k \in Saves |-> IdleSaver]
    /\ pass = [p \in Passes |->
                 IF p = TimerPass
                 THEN [IdlePass EXCEPT !.pc = "loop", !.src = "timer",
                                       !.pending = getPendingOfflineEntries(offlineEntries), !.i = 1,
                                       !.result = [NoResult EXCEPT !.kind = "counts", !.success = TRUE]]
                 ELSE IdlePass]
    /\ admitted = Len(offlineEntries)
    /\ started = 0
    /\ acked = [k \in Saves |-> 0]
    /\ netConnected = TRUE
    /\ netEvents = 0
    /\ isConnected = FALSE
    /\ pendingEntries = Len(getPendingOfflineEntries(offlineEntries))
    /\ isSyncing = FALSE
    /\ alerts = 0
    /\ api = NoCalls
    /\ lastSyncTime = NotSet
    /\ loading = NoLoads
    /\ syncStatus = "null"
    /\ component = Mounted
    /\ streak = 0

NextSnapshot ==
    \/ \E k \in Saves : recordMood_saveOfflineEntry(k)
    \/ \E k \in Saves : saveOfflineEntry_setItem(k)
    \/ \E k \in Saves : recordMood_refreshPendingCount(k)
    \/ syncOfflineEntries_deliver(TimerPass)
    \/ markEntriesAsSynced_getItem(TimerPass)
    \/ markEntriesAsSynced_setItem(TimerPass)
    \/ markEntriesAsSynced_setLastSync(TimerPass)
    \/ synchronizeOfflineEntries_finally(TimerPass)

SpecSnapshot == InitSnapshot /\ [][NextSnapshot]_vars

(***************************************************************************)
(* Passes that overlap in time.  One entry is pending; the interval fires  *)
(* while the callbacks of earlier ticks are still running, and the clock   *)
(* goes on between their steps.                                            *)
(***************************************************************************)
InitPasses ==
    /\ offlineEntries = PushEntry(<<>>, 0, 1, 0)
    /\ lastSyncTimestamp = NotSet
    /\ now = 0
    /\ saver = [k \in Saves |-> IdleSaver]
    /\ pass = [p \in Passes |-> IdlePass]
    /\ admitted = 0
    /\ started = 0
    /\ acked = [k \in Saves |-> 0]
    /\ netConnected = TRUE
    /\ netEvents = 0
    /\ isConnected = TRUE
    /\ pendingEntries = 1
    /\ isSyncing = FALSE
    /\ alerts = 0
    /\ api = NoCalls
    /\ lastSyncTime = NotSet
    /\ loading = NoLoads
    /\ syncStatus = "null"
    /\ component = Mounted
    /\ streak = 0

NextPasses ==
    \/ TickMs
    \/ TickWeek
    \/ \E p \in Passes : scheduleBackgroundSync_tick(p)
    \/ \E p \in Passes : scheduleBackgroundSync_check(p)
    \/ \E p \in Passes : syncOfflineEntries_list(p)
    \/ \E p \in Passes : syncOfflineEntries_deliver(p)
    \/ \E p \in Passes : markEntriesAsSynced_getItem(p)
    \/ \E p \in Passes : markEntriesAsSynced_setItem(p)
    \/ \E p \in Passes : markEntriesAsSynced_setLastSync(p)
    \/ \E p \in Passes : synchronizeOfflineEntries_finally(p)

SpecPasses == InitPasses /\ [][NextPasses]_vars

(***************************************************************************)
(* The background timer left running.  A NetInfo event has put the device  *)
(* on a network without reach of the internet (the app is in offline mode, *)
(* NetInfo.fetch() says connected); entries are saved and the interval of  *)
(* scheduleBackgroundSync fires again and again.                           *)
(***************************************************************************)
InitLive ==
    /\ offlineEntries = <<>>
    /\ lastSyncTimestamp = NotSet
    /\ now = 0
    /\ saver = [k \in Saves |-> IdleSaver]
    /\ pass = [p \in Passes |-> IdlePass]
    /\ admitted = 0
    /\ started = 0
    /\ acked = [k \in Saves |-> 0]
    /\ netConnected = TRUE
    /\ netEvents = 1
    /\ isConnected = FALSE
    /\ pendingEntries = 0
    /\ isSyncing = FALSE
    /\ alerts = 0
    /\ api = NoCalls
    /\ lastSyncTime = NotSet
    /\ loading = NoLoads
    /\ syncStatus = "null"
    /\ component = Mounted
    /\ streak = 0

NextLive ==
    \/ TickMs
    \/ \E k \in Saves : recordMood_saveOfflineEntry(k)
    \/ \E k \in Saves : saveOfflineEntry_setItem(k)
    \/ \E k \in Saves : recordMood_refreshPendingCount(k)
    \/ scheduleBackgroundSync_nextTick
    \/ scheduleBackgroundSync_check(TimerPass)
    \/ syncOfflineEntries_list(TimerPass)
    \/ syncOfflineEntries_deliver(TimerPass)
    \/ markEntriesAsSynced_getItem(TimerPass)
    \/ markEntriesAsSynced_setItem(TimerPass)
    \/ markEntriesAsSynced_setLastSync(TimerPass)
    \/ synchronizeOfflineEntries_finally(TimerPass)

\* the delivery of the entry admitted as number k by pass p is acknowledged
DeliverAcked(p, k) ==
    /\ syncOfflineEntries_deliver(p)
    /\ pass[p].pending[pass[p].i].seq = k
    /\ Len(pass'[p].syncedIds) > Len(pass[p].syncedIds)

\* Every awaited promise settles and the interval keeps firing; a read or a
\* write of AsyncStorage that is tried again and again succeeds in the end, and
\* so does the delivery of each entry.
FairLive ==
    /\ \A k \in Saves : WF_vars(saveOfflineEntry_setItem(k))
    /\ \A k \in Saves : WF_vars(recordMood_refreshPendingCount(k))
    /\ SF_vars(scheduleBackgroundSync_nextTick)
    /\ WF_vars(scheduleBackgroundSync_check(TimerPass))
    /\ WF_vars(syncOfflineEntries_list(TimerPass))
    /\ WF_vars(syncOfflineEntries_deliver(TimerPass))
    /\ WF_vars(markEntriesAsSynced_getItem(TimerPass))
    /\ WF_vars(markEntriesAsSynced_setItem(TimerPass))
    /\ WF_vars(markEntriesAsSynced_setLastSync(TimerPass))
    /\ WF_vars(synchronizeOfflineEntries_finally(TimerPass))
    /\ SF_vars(scheduleBackgroundSync_check(TimerPass) /\ pass'[TimerPass].pc = "list")
    /\ SF_vars(syncOfflineEntries_list(TimerPass) /\ pass'[TimerPass].pc = "loop")
    /\ SF_vars(markEntriesAsSynced_getItem(TimerPass) /\ pass'[TimerPass].pc = "markWrite")
    /\ SF_vars(markEntriesAsSynced_setItem(TimerPass) /\ pass'[TimerPass].pc = "lastSync")
    /\ \A k \in Saves : SF_vars(DeliverAcked(TimerPass, k))

SpecLive == InitLive /\ [][NextLive]_vars /\ FairLive

(***************************************************************************)
(* Properties.                                                             *)
(***************************************************************************)
\* pass p is inside syncOfflineEntries: called and not yet returned
InFlight(p) == pass[p].pc \in {"list", "loop", "markRead", "markWrite", "lastSync"}

\* syncOfflineEntries of pass p returns the counts of a loop in this step
Returns(p) ==
    /\ pass[p].pc # "done"
    /\ pass'[p].pc = "done"
    /\ pass'[p].result.kind = "counts"

\* positions of the snapshot of q the endpoint acknowledged / did not
AckedAt(q) == {i \in 1..Len(q.pending) : q.acks[i]}
FailedAt(q) == {i \in 1..Len(q.pending) : ~q.acks[i]}

\* the ids of the entries at the failed positions, in snapshot order
FailedIds(q) ==
    LET idx == SelectSeq([i \in 1..Len(q.pending) |-> i], LAMBDA i : ~q.acks[i])
    IN [k \in 1..Len(idx) |-> q.pending[idx[k]].offlineId]

\* the stored entry admitted as number k is synced / pending in entries
SyncedIn(entries, k) == \E i \in 1..Len(entries) : entries[i].seq = k /\ ~entries[i].pendingSync
PendingIn(entries, k) == \E i \in 1..Len(entries) : entries[i].seq = k /\ entries[i].pendingSync

\* the place in entries of the entry admitted as number k
Place(entries, k) == CHOOSE i \in 1..Len(entries) : entries[i].seq = k

\* entries are listed in admission order
InAdmissionOrder(entries) ==
    \A i, j \in 1..Len(entries) : i < j => entries[i].seq < entries[j].seq

(* C1: at most one sync pass is in flight at any time; a trigger that arrives
   while a pass has not returned starts no second pass. *)
C1_AtMostOnePassInFlight == Cardinality({p \in Passes : InFlight(p)}) <= 1

(* C2: getPendingOfflineEntries returns the pending entries in the order of
   their admission, both as stored now and as every sync pass received them. *)
C2_PendingInAdmissionOrder ==
    /\ InAdmissionOrder(getPendingOfflineEntries(offlineEntries))
    /\ \A p \in Passes : InAdmissionOrder(pass[p].pending)

\* a sync pass was handed two pending entries
C2_TwoPendingListed == \E p \in Passes : Len(pass[p].pending) >= 2

(* C3: when a sync pass returns, synced and failed count the acknowledged and
   the unacknowledged entries of its snapshot, success says that none failed,
   errors names each failed entry once, and of the snapshot exactly the failed
   entries are pending in the offlineEntries. *)
C3_ResultMatchesOutcomes ==
    [][\A p \in Passes : Returns(p) =>
        LET q == pass'[p] IN
        /\ q.result.synced = Cardinality(AckedAt(q))
        /\ q.result.failed = Cardinality(FailedAt(q))
        /\ q.result.success = (q.result.failed = 0)
        /\ q.result.errors = FailedIds(q)
        /\ Seqs(getPendingOfflineEntries(offlineEntries')) \cap Seqs(q.pending)
             = {q.pending[i].seq : i \in FailedAt(q)}]_vars

(* C4: when a sync pass in which the endpoint acknowledged one entry returns,
   that entry is no longer listed as pending and of the entries the pass
   listed exactly one fewer is pending. *)
C4_RoundTripLowersCountByOne ==
    [][\A p \in Passes : (Returns(p) /\ Cardinality(AckedAt(pass'[p])) = 1) =>
        LET q == pass'[p] IN
        /\ \A i \in AckedAt(q) : ~PendingIn(offlineEntries', q.pending[i].seq)
        /\ Cardinality(Seqs(getPendingOfflineEntries(offlineEntries')) \cap Seqs(q.pending))
             = Len(q.pending) - 1]_vars

(* C5: a stored entry is synced only if the endpoint acknowledged a delivery
   of that very entry. *)
C5_SyncedOnlyIfAcknowledged ==
    \A i \in 1..Len(offlineEntries) : ~offlineEntries[i].pendingSync => acked[offlineEntries[i].seq] > 0

(* C6: no two stored entries carry the same offlineId. *)
C6_DistinctOfflineIds ==
    \A i, j \in 1..Len(offlineEntries) : i # j => offlineEntries[i].offlineId # offlineEntries[j].offlineId

(* C7: a stored entry that is synced is never pending again in the next state
   of the offlineEntries. *)
C7_SyncedStaysSynced ==
    [][\A k \in Saves : SyncedIn(offlineEntries, k) => ~PendingIn(offlineEntries', k)]_vars

(* C8: the entries markEntriesAsSynced writes back contain every entry it read
   that is pending and not named in offlineIds, however old it is. *)
C8_PruneKeepsPending ==
    (api.calls >= 1 /\ api.wrote[1]) =>
        \A i \in 1..Len(api.before) :
            (api.before[i].pendingSync /\ api.before[i].offlineId \notin api.offlineIds)
                => \E j \in 1..Len(offlineEntries) : offlineEntries[j] = api.before[i]

\* a call removed an entry and kept a pending one older than the window
C8_OldPendingKept ==
    /\ api.calls >= 1
    /\ api.wrote[1]
    /\ Len(offlineEntries) < Len(api.before)
    /\ \E j \in 1..Len(offlineEntries) :
          offlineEntries[j].pendingSync /\ offlineEntries[j].timestamp <= api.at[1] - SevenDays

(* C9, as stated: after the second of two calls in a row with the same ids,
   both of which wrote, the stored entries are what they were after the
   first. *)
C9_SecondCallChangesNothing ==
    (api.calls = 2 /\ api.wrote[1] /\ api.wrote[2]) => offlineEntries = api.first

(* C9, amended: after a first call that wrote, a second call with the same ids
   changes no field of a stored entry and not their order; it removes only
   synced entries that passed the retention window between the two calls, and
   nothing when both calls read the same time. *)
C9_SecondCallOnlyPrunes ==
    (api.calls = 2 /\ api.wrote[1]) =>
        /\ offlineEntries = SelectSeq(api.first, LAMBDA e : e.seq \in Seqs(offlineEntries))
        /\ \A i \in 1..Len(api.first) :
              api.first[i].seq \notin Seqs(offlineEntries) =>
                 /\ ~api.first[i].pendingSync
                 /\ api.first[i].timestamp <= api.at[2] - SevenDays
                 /\ api.first[i].timestamp > api.at[1] - SevenDays
        /\ api.at[2] = api.at[1] => offlineEntries = api.first

\* both calls wrote, the first marked an entry and the second removed one
C9_SecondCallPruned ==
    /\ api.calls = 2
    /\ api.wrote[1]
    /\ api.wrote[2]
    /\ api.first # api.before
    /\ Len(offlineEntries) < Len(api.first)

(* C10: a sync pass is started in the very step in which the device goes from
   not connected to connected with entries pending, and a connectivity event
   that is no such transition neither starts a pass nor asks for one. *)
C10_OnePassPerRestore ==
    [][LET restored == ~netConnected /\ netConnected' /\ Len(getPendingOfflineEntries(offlineEntries)) > 0 IN
        /\ restored => started' = started + 1
        /\ (netEvents' # netEvents /\ ~restored) => (alerts' = alerts /\ started' = started)]_vars

(* C11: once the function returned by scheduleBackgroundSync has been called,
   no callback of the cleared interval calls syncOfflineEntries, not even one
   that was awaiting its pending count when the interval was cleared. *)
C11_NoPassAfterCancel ==
    [][\A p \in Passes : (pass[p].pc = "count" /\ pass[p].cancelled) =>
          pass'[p].pc \notin {"list", "done"}]_vars

(* C12: the stored time of the last sync and the 'Last sync' time on the
   screen change only in a step of a sync pass whose write turned at least one
   stored entry from pending to synced (or, on the screen, to show the stored
   time). *)
C12_LastSyncOnlyAfterSynced ==
    [][/\ lastSyncTimestamp' # lastSyncTimestamp =>
            \E p \in Passes : pass[p].pc = "lastSync" /\ pass'[p].pc = "done" /\ pass[p].moved > 0
       /\ lastSyncTime' # lastSyncTime =>
            \/ \E p \in Passes : pass[p].pc = "done" /\ pass'[p].pc = "end" /\ pass[p].moved > 0
            \/ (loading'.time < loading.time /\ lastSyncTime' = toLocaleString(lastSyncTimestamp))]_vars

(* C13: a sync pass attempts every entry of its snapshot: while it is in the
   loop the entries before the current one have all been attempted, whatever
   their outcomes, and the current one is an entry of the snapshot; once it
   has left the loop every entry of the snapshot has been attempted. *)
C13_EveryEntryAttempted ==
    \A p \in Passes :
        /\ pass[p].pc = "loop" =>
              /\ pass[p].i = Len(pass[p].acks) + 1
              /\ pass[p].i <= Len(pass[p].pending)
        /\ pass[p].pc \in {"markRead", "markWrite", "lastSync", "done"} /\ pass[p].result.kind = "counts" =>
              Len(pass[p].acks) = Len(pass[p].pending)

\* a pass attempted a second entry after the delivery of the first had failed
C13_AttemptAfterFailure ==
    \E p \in Passes : Len(pass[p].acks) >= 2 /\ ~pass[p].acks[1]

(* C14: a delivery is counted as synced if and only if the endpoint answered
   with a 2xx whose body has success: true; every other outcome of the request
   is counted as a failure of that entry. *)
C14_SyncedIffSuccessTrue ==
    \A p \in Passes : \A i \in 1..Len(pass[p].acks) :
        pass[p].acks[i] = SuccessTrue(api.responses[i])

\* synchronizeOfflineEntries shows the summary of pass p in this step
Summarises(p) == pass[p].pc = "done" /\ pass[p].src = "ui" /\ pass'[p].pc = "end"

(* C15, as stated: the summary of a sync pass is 'complete' iff no attempted
   entry failed, 'partial' iff some were counted synced and some failed, and
   'failed' iff entries were attempted and none was counted synced. *)
C15_StatusFollowsOutcomes ==
    [][\A p \in Passes : Summarises(p) =>
        LET q == pass[p] IN
        /\ (syncStatus' = "complete") = (FailedAt(q) = {})
        /\ (syncStatus' = "partial") = (AckedAt(q) # {} /\ FailedAt(q) # {})
        /\ (syncStatus' = "failed") = (Len(q.acks) > 0 /\ AckedAt(q) = {})]_vars

(* C15, amended: for a pass that attempted entries the summary is 'complete'
   iff none failed, 'partial' iff some were counted synced and some failed,
   'failed' iff none was counted synced; a pass that found nothing to attempt
   is summarised as 'complete', a pass called without connection as 'failed',
   a call that rejected as 'error'. *)
C15_StatusFollowsOutcomesOfAttempts ==
    [][\A p \in Passes : Summarises(p) =>
        LET q == pass[p] IN
        /\ q.result.kind = "counts" =>
             /\ Len(q.acks) = Len(q.pending) /\ Len(q.pending) > 0
             /\ (syncStatus' = "complete") = (FailedAt(q) = {})
             /\ (syncStatus' = "partial") = (AckedAt(q) # {} /\ FailedAt(q) # {})
             /\ (syncStatus' = "failed") = (AckedAt(q) = {})
        /\ q.result.kind \in {"empty", "unread"} => Len(q.acks) = 0 /\ syncStatus' = "complete"
        /\ q.result.kind = "noNet" => Len(q.acks) = 0 /\ syncStatus' = "failed"
        /\ q.result.kind = "thrown" => Len(q.acks) = 0 /\ syncStatus' = "error"
        /\ q.result.kind \in {"counts", "empty", "unread", "noNet", "thrown"}]_vars

\* the summary of a pass with one entry counted synced and one failed is shown
C15_PartialSummarised == syncStatus = "partial"

(* C16: a sync pass that finds no entry pending reports nothing: when it
   returns to synchronizeOfflineEntries no summary ('complete', 'partial' or
   'failed') is shown. *)
C16_EmptyPassReportsNothing ==
    [][\A p \in Passes : (Summarises(p) /\ pass[p].result.kind = "empty") =>
          syncStatus' \notin {"complete", "partial", "failed"}]_vars

(* C17: saveOfflineEntry returns true only with its entry written as pending;
   when its read or its write fails it leaves the stored entries as they are
   and returns false, and recordMood then shows an error: a call whose entry
   was not stored always ends with an error shown. *)
C17_SaveStoresOrReports ==
    [][\A k \in Saves :
          /\ (saver[k].pc \in {"idle", "write"} /\ saver'[k].pc = "returned") =>
                IF saver'[k].ret
                THEN PendingIn(offlineEntries', k)
                ELSE offlineEntries' = offlineEntries /\ k \notin Seqs(offlineEntries')
          /\ (saver[k].pc = "returned" /\ saver'[k].pc = "done") =>
                (saver'[k].error # "null") = ~saver[k].ret]_vars

\* a saveOfflineEntry call failed, nothing of it is stored and the error is shown
C17_FailureShown ==
    \E k \in Saves : saver[k].pc = "done" /\ ~saver[k].ret /\ saver[k].error # "null"
                        /\ k \notin Seqs(offlineEntries)

(* C18: under the running timer, with the device connected and every entry's
   delivery acknowledged in the end, every entry that saveOfflineEntry has
   accepted is eventually synced in the stored list. *)
C18_SavedEventuallySynced ==
    \A k \in Saves : [](saver[k].ret => <>SyncedIn(offlineEntries, k))

(* C19: no call of syncOfflineEntries ends as a rejected promise: every pass
   that has ended has returned a result. *)
C19_ResultNeverThrown ==
    \A p \in Passes : pass[p].pc = "done" => pass[p].result.kind # "thrown"

(* C20: a failed read of the stored list is never answered as an empty list of
   pending entries: no pass returns the no-pending-entries result out of a read
   that threw. *)
C20_ReadFailureNotEmptyQueue ==
    \A p \in Passes : pass[p].result.kind # "unread"

(* C21: a damaged element of the stored array is skipped: when its read of the
   store succeeds, getPendingOfflineEntries hands the pass every stored element
   that is an entry and pending. *)
C21_DamagedRecordSkipped ==
    [][\A p \in Passes :
          (pass[p].pc = "list" /\ pass'[p].pc # "list" /\ pass'[p].result.kind # "unread") =>
              \A i \in 1..Len(offlineEntries) :
                  (~IsNull(offlineEntries[i]) /\ offlineEntries[i].pendingSync) =>
                      offlineEntries[i] \in Range(pass'[p].pending)]_vars

(* C22: no step reorders the pending entries: two entries that are pending in
   the stored list before and after a write of it, whatever was marked or
   pruned around them, stand in the same order after as before. *)
C22_PendingKeepOrder ==
    [][offlineEntries' # offlineEntries =>
          \A i, j \in 1..Len(offlineEntries) :
             LET a == offlineEntries[i].seq
                 b == offlineEntries[j].seq
             IN (/\ i < j
                 /\ offlineEntries[i].pendingSync /\ offlineEntries[j].pendingSync
                 /\ PendingIn(offlineEntries', a) /\ PendingIn(offlineEntries', b))
                    => Place(offlineEntries', a) < Place(offlineEntries', b)]_vars

\* a pass delivered one of three pending entries, its write marked and pruned
\* that one, and the two whose delivery failed are what the store holds
C22_TwoFailedLeft ==
    \E p \in Passes :
        /\ pass[p].pc = "lastSync"
        /\ pass[p].moved = 0
        /\ Len(pass[p].pending) = 3
        /\ Cardinality(FailedAt(pass[p])) = 2
        /\ Len(offlineEntries) = 2
        /\ Seqs(getPendingOfflineEntries(offlineEntries)) = {pass[p].pending[i].seq : i \in FailedAt(pass[p])}

(* C23: a pass that was in flight when its interval was cleared has, when it
   returns, attempted every entry of its snapshot, and every entry whose
   delivery was acknowledged is no longer pending in the stored list. *)
C23_CancelledPassCompletes ==
    [][\A p \in Passes : (pass[p].cancelled /\ Returns(p)) =>
          /\ Len(pass'[p].acks) = Len(pass'[p].pending)
          /\ \A i \in AckedAt(pass'[p]) : ~PendingIn(offlineEntries', pass'[p].pending[i].seq)]_vars

(* C24: at most one interval of scheduleBackgroundSync is set and not cleared
   at any time, and none once the component has been unmounted. *)
C24_AtMostOneScheduler ==
    /\ component.intervals \in {0, 1}
    /\ component.mounted => component.intervals = 1
    /\ ~component.mounted => component.intervals = 0

\* the effect has run anew while a callback of the interval it cleared was
\* still running, and the component has been unmounted since
C24_RerunThenUnmounted ==
    /\ ~component.mounted
    /\ loading.done > 0
    /\ \E p \in Passes : pass[p].cancelled

(* C25: 'Save Offline' of the 'Network Error' prompt saves the entry offline:
   the recordMood call it makes takes the offline path (it calls
   saveOfflineEntry) and posts nothing to the server. *)
C25_SaveOfflineTakesOfflinePath ==
    [][\A k \in Saves : (saver[k].pc = "alert" /\ admitted' = admitted + 1) =>
          saver'[admitted'].pc \in {"write", "returned"}]_vars

(* C26: an entry for which saveOfflineEntry returned true is in the stored
   list when the call returns, and a write of the list removes it only as a
   synced entry (synced before, or marked by that very write) older than the
   retention window. *)
C26_SavedStaysStored ==
    [][\A k \in Saves :
          /\ (saver[k].pc = "write" /\ saver'[k].ret) => k \in Seqs(offlineEntries')
          /\ (saver[k].ret /\ k \in Seqs(offlineEntries) /\ k \notin Seqs(offlineEntries')) =>
                \E i \in 1..Len(offlineEntries) :
                    /\ offlineEntries[i].seq = k
                    /\ offlineEntries[i].timestamp <= now - SevenDays
                    /\ \/ ~offlineEntries[i].pendingSync
                       \/ \E p \in Passes : /\ pass[p].pc = "markWrite"
                                             /\ pass'[p].pc # "markWrite"
                                             /\ offlineEntries[i].offlineId \in Range(pass[p].syncedIds)]_vars

(* C27: no stored entry is delivered with an acknowledgement of the endpoint
   more than once, by one pass or by several. *)
C27_AcknowledgedAtMostOnce ==
    \A k \in Saves : acked[k] <= 1

(* C28: the synced count a sync pass returns is the number of stored entries
   its write turned from pending to synced; a pass whose markEntriesAsSynced
   did not write reports no entry as synced. *)
C28_SyncedCountIsMoved ==
    [][\A p \in Passes : Returns(p) => pass'[p].result.synced = pass'[p].moved]_vars

(* C29: a sync pass ends with a returned result, and when
   synchronizeOfflineEntries is through with it the syncing indicator is off:
   no pass ends by a rejection of syncOfflineEntries, and the step that ends a
   pass started from the screen leaves isSyncing false. *)
C29_PassEndsWithResult ==
    [][\A p \in Passes : (pass[p].pc = "done" /\ pass'[p].pc = "end") =>
          /\ pass[p].result.kind \in {"counts", "empty", "unread", "untyped", "noNet"}
          /\ pass[p].src = "ui" => ~isSyncing']_vars

\* pass p makes a delivery attempt in this step
Attempts(p) == Len(pass'[p].acks) > Len(pass[p].acks)

(* C30: a pass attempts each entry of its snapshot at most once, and only a
   trigger leads to attempts: every attempt is the step of a pass in its loop
   on the next entry of its snapshot not yet attempted, the snapshot names no
   entry twice, and a pass enters its loop only from the listing that its
   trigger led to, never after it has returned. *)
C30_OneAttemptPerEntryAndTrigger ==
    [][\A p \in Passes :
          /\ Attempts(p) =>
                /\ pass[p].pc = "loop"
                /\ Len(pass'[p].acks) = Len(pass[p].acks) + 1
                /\ pass[p].i = Len(pass'[p].acks)
                /\ pass[p].i <= Len(pass[p].pending)
          /\ \A i, j \in 1..Len(pass[p].pending) :
                i # j => pass[p].pending[i].seq # pass[p].pending[j].seq
          /\ (pass'[p].pc = "loop" /\ pass[p].pc # "loop") => pass[p].pc = "list"
          /\ (pass'[p].pc = "list" /\ pass[p].pc # "list") => pass[p].pc \in {"idle", "count"}
          /\ (pass'[p].pc = "count" /\ pass[p].pc # "count") => pass[p].pc \in {"idle", "end"}
          /\ pass[p].pc \in {"done", "end"} => pass'[p].pc \in {"done", "end", "count"}]_vars

\* a pass over two entries has returned with a failed delivery
C30_ReturnedWithFailure ==
    \E p \in Passes :
        /\ pass[p].pc = "done"
        /\ pass[p].result.kind = "counts"
        /\ pass[p].result.failed >= 1
        /\ Len(pass[p].pending) = 2
        /\ Len(pass[p].acks) = 2

(* C31: a pass attempts the entries of the snapshot it listed, one after the
   other in admission order, and no entry saved after the listing; an entry
   whose save returned true after the listing is pending in the stored list when
   the pass returns. *)
C31_LateEntryLeftPending ==
    [][\A p \in Passes :
          /\ Attempts(p) =>
                /\ pass[p].i = Len(pass'[p].acks)
                /\ pass[p].i <= Len(pass[p].pending)
                /\ \A j \in 1..(pass[p].i - 1) : pass[p].pending[j].seq < pass[p].pending[pass[p].i].seq
                /\ \A k \in Saves : (saver[k].pc # "idle") => acked'[k] = 0
          /\ (pass[p].pc # "done" /\ pass'[p].pc = "done") =>
                \A k \in Saves : saver'[k].ret => PendingIn(offlineEntries', k)]_vars

(* C32: the callback of the interval calls syncOfflineEntries if and only if
   the pending count it has read is greater than 0; the count it reads is that
   of the stored pending entries, or 0 when the read fails; a callback that has
   read 0 ends with no delivery attempted and nothing written. *)
C32_TickSyncsIffPending ==
    [][\A p \in Passes :
          /\ (pass[p].pc = "count" /\ pass'[p].pc # "count") =>
                /\ pass'[p].pc \in {"list", "done", "end"}
                /\ pass'[p].count \in {0, Len(getPendingOfflineEntries(offlineEntries))}
                /\ (pass'[p].pc \in {"list", "done"}) = (pass'[p].count > 0)
                /\ pass'[p].count = 0 =>
                      /\ pass'[p].acks = <<>>
                      /\ acked' = acked
                      /\ offlineEntries' = offlineEntries
                      /\ lastSyncTimestamp' = lastSyncTimestamp
          /\ (pass[p].pc = "end" /\ pass[p].src = "timer") => pass'[p] = pass[p]]_vars

\* a callback of the interval has ended on a store that no save has written
\* yet, one save being under way
C32_TickFoundNothing ==
    \E p \in Passes :
        /\ pass[p].pc = "end"
        /\ pass[p].src = "timer"
        /\ offlineEntries = <<>>
        /\ \A k \in Saves : saver[k].pc \in {"idle", "write"}
        /\ \E k \in Saves : saver[k].pc = "write"

\* every id of offlineIds is unknown to entries or carried by synced entries only
UnknownOrSynced(entries, offlineIds) ==
    \A i \in 1..Len(entries) : entries[i].offlineId \in offlineIds => ~entries[i].pendingSync

(* C33, as stated: a call of markEntriesAsSynced with ids that are unknown to
   the store or already synced, and that wrote, leaves the stored entries as
   they were. *)
C33_UnknownIdsChangeNothing ==
    (api.calls >= 1 /\ api.wrote[1] /\ UnknownOrSynced(api.before, api.offlineIds)) =>
        api.first = api.before

(* C33, amended: a call of markEntriesAsSynced with ids that are unknown to
   the store or already synced, and that wrote, changes no field of a stored
   entry and not their order; it removes the synced entries older than the
   retention window, and only those. *)
C33_UnknownIdsOnlyPrune ==
    (api.calls >= 1 /\ api.wrote[1] /\ UnknownOrSynced(api.before, api.offlineIds)) =>
        /\ api.first = SelectSeq(api.before, LAMBDA e : e.seq \in Seqs(api.first))
        /\ \A i \in 1..Len(api.before) :
              (api.before[i].seq \notin Seqs(api.first)) =
                 (~api.before[i].pendingSync /\ api.before[i].timestamp <= api.at[1] - SevenDays)

\* a call named the id of a synced entry and an id no entry has; it kept a
\* synced entry and a pending one and removed an old synced one
C33_CalledWithUnknownAndSynced ==
    /\ api.calls >= 1
    /\ api.wrote[1]
    /\ UnknownOrSynced(api.before, api.offlineIds)
    /\ api.offlineIds \cap Ids(api.before) # {}
    /\ api.offlineIds \ Ids(api.before) # {}
    /\ Len(api.first) < Len(api.before)
    /\ Len(api.first) > 0

(* C34: a synced entry leaves the stored list only by the filter of
   markEntriesAsSynced and only when its timestamp is older than the time of
   the call less the retention window: of the entries a call has read and
   marked, the synced ones it does not write back are those with an older
   timestamp, and no step takes a synced entry with a younger timestamp out of
   the stored list. *)
C34_PrunedOnlyWhenOlder ==
    [][/\ \A p \in Passes : (pass[p].pc = "markWrite" /\ pass'[p].pc = "lastSync") =>
             LET read == MarkSynced(pass[p].entries, Range(pass[p].syncedIds)) IN
             \A i \in 1..Len(read) :
                 ~read[i].pendingSync =>
                     (read[i].seq \notin Seqs(offlineEntries')) = (read[i].timestamp < now - SevenDays)
       /\ \A i \in 1..Len(offlineEntries) :
             (~offlineEntries[i].pendingSync /\ offlineEntries[i].timestamp > now - SevenDays) =>
                 offlineEntries[i].seq \in Seqs(offlineEntries')]_vars

(* C35: the time stored under LAST_SYNC_KEY never goes back: once set it stays
   set, and no step of any pass, however the passes overlap, stores an earlier
   time than the one stored. *)
C35_LastSyncNeverRolledBack ==
    [][/\ lastSyncTimestamp' >= lastSyncTimestamp
       /\ lastSyncTimestamp # NotSet => lastSyncTimestamp' # NotSet]_vars

\* two overlapping passes have both gone through markEntriesAsSynced, the one
\* that marked the entry and one that found it marked, and the time stored is
\* later than the start of the run
C35_TwoPassesStamped ==
    \E p, q \in Passes :
        /\ pass[p].pc = "done" /\ pass[p].moved = 1
        /\ pass[q].pc = "done" /\ pass[q].moved = 0 /\ Len(pass[q].syncedIds) > 0
        /\ lastSyncTimestamp > 0
        /\ lastSyncTimestamp = now

\* syncOfflineEntries is called for pass p in this step
Called(p) == pass[p].pc \in {"idle", "count"} /\ pass'[p].pc \in {"list", "done"}

(* C36: a call of syncOfflineEntries to which NetInfo reports the device as
   not connected returns at once with success false, synced 0 and failed 0 (or
   NetInfo.fetch rejects, and nothing is returned): no delivery is attempted,
   and neither the call nor what its caller does with the result changes the
   stored list or the stored sync time. *)
C36_NotConnectedChangesNothing ==
    [][\A p \in {q \in Passes : pass'[q] # pass[q]} :
          /\ (Called(p) /\ ~netConnected) =>
                /\ pass'[p].pc = "done"
                /\ pass'[p].result.kind \in {"noNet", "thrown"}
          /\ (Called(p) /\ pass'[p].result.kind = "noNet") =>
                /\ ~netConnected
                /\ ~pass'[p].result.success
                /\ pass'[p].result.synced = 0
                /\ pass'[p].result.failed = 0
                /\ pass'[p].acks = <<>>
                /\ offlineEntries' = offlineEntries
                /\ lastSyncTimestamp' = lastSyncTimestamp
                /\ acked' = acked
          /\ (pass[p].result.kind = "noNet" /\ pass'[p] # pass[p]) =>
                /\ pass[p].pc = "done"
                /\ pass'[p].pc \in {"done", "end"}
                /\ pass'[p].acks = <<>>
                /\ offlineEntries' = offlineEntries
                /\ lastSyncTimestamp' = lastSyncTimestamp
                /\ acked' = acked]_vars

\* syncOfflineEntries has returned its no-connection result while an entry is
\* pending in the store
C36_ReturnedNotConnected ==
    \E p \in Passes :
        /\ pass[p].pc = "done"
        /\ pass[p].result.kind = "noNet"
        /\ ~netConnected
        /\ Len(getPendingOfflineEntries(offlineEntries)) > 0

(* C37: whatever moods are recorded, offline or with the server's answer taken
   as a success, the streak is a number from 0 to 7, and so is the streak every
   call of recordMood sends or counts from. *)
C37_StreakInRange ==
    /\ streak \in 0..StreakCap
    /\ \A k \in Saves : saver[k].streak \in 0..StreakCap

\* a mood recorded at the full streak has been answered by the server with a
\* success, another has been saved offline, and the streak is full
C37_RecordedAtFullStreak ==
    /\ streak = StreakCap
    /\ \E k \in Saves : saver[k].pc = "success" /\ saver[k].streak = StreakCap
    /\ \E k \in Saves : saver[k].pc = "done" /\ saver[k].ret

====
